---- MODULE Spec2Model ----
(***************************************************************************)
(* A model of the Binance Futures testnet trading bot: the validators      *)
(* (bot/validators.py), the signing transport client (bot/client.py), the  *)
(* order workflow (bot/orders.py) and the command line (cli.py).           *)
(*                                                                         *)
(* Python values are records tagged by their type: a str is a TLA+ string, *)
(* a float is [t |-> "float", v |-> n] (only integral floats are drawn),   *)
(* the float nan is [t |-> "nan"], None is [t |-> "None"].                 *)
(***************************************************************************)
EXTENDS Integers, Sequences, FiniteSets, TLC

VARIABLES pc, args, env, client, steps, last, exit_code, vin, vout

vars == <<pc, args, env, client, steps, last, exit_code, vin, vout>>

\* ---------------------------------------------------------------- bounds
\* the number of menu choices one interactive session is followed for
MaxChoices == 1

\* a local variable: F applied to the value v
With(v, F(_)) == F(v)

\* ------------------------------------------------------- Python values
None == [t |-> "None"]

NaN == [t |-> "nan"]

PyFloat(n) == [t |-> "float", v |-> n]

PyInt(n) == [t |-> "int", v |-> n]

\* Python's `x <= 0` on a float: every comparison with nan is False
LeZero(x) == x.t = "float" /\ x.v <= 0

\* Python's `x > 0` on a float
GtZero(x) == x.t = "float" /\ x.v > 0

\* ------------------------------------------------------------- strings
LowerCase == "abcdefghijklmnopqrstuvwxyz"

UpperCase == "ABCDEFGHIJKLMNOPQRSTUVWXYZ"

Digits == "0123456789"

Whitespace == {" ", "\t", "\n"}

CharAt(s, i) == SubSeq(s, i, i)

Chars(s) == {CharAt(s, i) : i \in 1..Len(s)}

\* str.upper() and str.lower() on one character, as tables
ToUpper ==
  [c \in Chars(LowerCase) |->
     CharAt(UpperCase, CHOOSE i \in 1..Len(LowerCase) : CharAt(LowerCase, i) = c)]

ToLower ==
  [c \in Chars(UpperCase) |->
     CharAt(LowerCase, CHOOSE i \in 1..Len(UpperCase) : CharAt(UpperCase, i) = c)]

UpperChar(c) == IF c \in DOMAIN ToUpper THEN ToUpper[c] ELSE c

LowerChar(c) == IF c \in DOMAIN ToLower THEN ToLower[c] ELSE c

RECURSIVE upper(_)
upper(s) == IF s = "" THEN "" ELSE UpperChar(Head(s)) \o upper(Tail(s))

RECURSIVE lower(_)
lower(s) == IF s = "" THEN "" ELSE LowerChar(Head(s)) \o lower(Tail(s))

RECURSIVE lstrip(_)
lstrip(s) == IF s # "" /\ Head(s) \in Whitespace THEN lstrip(Tail(s)) ELSE s

RECURSIVE rstrip(_)
rstrip(s) ==
  IF s # "" /\ CharAt(s, Len(s)) \in Whitespace
  THEN rstrip(SubSeq(s, 1, Len(s) - 1))
  ELSE s

strip(s) == rstrip(lstrip(s))

\* str.isalnum(): non-empty and every character a letter or a digit
AlnumChars == Chars(LowerCase) \cup Chars(UpperCase) \cup Chars(Digits)

isalnum(s) == s # "" /\ \A i \in 1..Len(s) : CharAt(s, i) \in AlnumChars

\* ---------------------------------------------------------- exceptions
ValueError(msg) == [type |-> "ValueError", message |-> msg]

Raise(e) == [ok |-> FALSE, exc |-> e]

Return(v) == [ok |-> TRUE, value |-> v]

\* ---------------------------------------------------------- validators
VALID_SIDES == {"BUY", "SELL"}

VALID_ORDER_TYPES == {"MARKET", "LIMIT", "STOP_MARKET"}

validate_symbol(symbol) ==
  With(upper(strip(symbol)), LAMBDA s :
    IF s = "" THEN Raise(ValueError("Symbol cannot be empty."))
    ELSE IF ~isalnum(s) THEN Raise(ValueError("Symbol contains invalid characters."))
    ELSE Return(s))

validate_side(side) ==
  With(upper(strip(side)), LAMBDA s :
    IF s \notin VALID_SIDES THEN Raise(ValueError("Side must be one of VALID_SIDES."))
    ELSE Return(s))

validate_order_type(order_type) ==
  With(upper(strip(order_type)), LAMBDA s :
    IF s \notin VALID_ORDER_TYPES
    THEN Raise(ValueError("Order type must be one of VALID_ORDER_TYPES."))
    ELSE Return(s))

validate_quantity(quantity) ==
  IF LeZero(quantity) THEN Raise(ValueError("Quantity must be > 0."))
  ELSE Return(quantity)

validate_price(price, order_type) ==
  IF order_type \in {"LIMIT", "STOP_MARKET"}
  THEN IF price = None THEN Raise(ValueError("Price is required."))
       ELSE IF LeZero(price) THEN Raise(ValueError("Price must be > 0."))
       ELSE Return(price)
  ELSE Return(price)

\* the checks of validate_all on the results of the five validators
ValidateAll(s, sd, ot, q, p, order_type, stop_price) ==
  IF ~s.ok THEN s
  ELSE IF ~sd.ok THEN sd
  ELSE IF ~ot.ok THEN ot
  ELSE IF ~q.ok THEN q
  ELSE IF ~p.ok THEN p
  ELSE IF upper(strip(order_type)) = "STOP_MARKET"
  THEN IF stop_price = None \/ LeZero(stop_price)
       THEN Raise(ValueError("stop_price is required and must be > 0."))
       ELSE Return([symbol |-> s.value, side |-> sd.value, order_type |-> ot.value,
                    quantity |-> q.value, price |-> p.value,
                    stop_price |-> stop_price])
  ELSE Return([symbol |-> s.value, side |-> sd.value, order_type |-> ot.value,
               quantity |-> q.value, price |-> p.value])

validate_all(symbol, side, order_type, quantity, price, stop_price) ==
  ValidateAll(validate_symbol(symbol), validate_side(side),
              validate_order_type(order_type), validate_quantity(quantity),
              validate_price(price, upper(strip(order_type))),
              order_type, stop_price)

\* ------------------------------------------------- dicts (insertion-ordered)
\* a dict is a sequence of <<key, value>> pairs in insertion order
Keys(d) == {d[i][1] : i \in 1..Len(d)}

\* d[k] = v: an existing key keeps its position, a new key goes last
DictSet(d, k, v) ==
  IF k \in Keys(d)
  THEN [i \in 1..Len(d) |-> IF d[i][1] = k THEN <<k, v>> ELSE d[i]]
  ELSE Append(d, <<k, v>>)

PyStr(s) == [t |-> "str", v |-> s]

\* str(v)
str(v) ==
  CASE v.t = "str" -> v.v
    [] v.t = "int" -> ToString(v.v)
    [] v.t = "float" -> ToString(v.v) \o ".0"
    [] v.t = "nan" -> "nan"
    [] v.t = "None" -> "None"
    [] v.t = "hexdigest" -> "hmac(" \o v.key \o "," \o v.msg \o ")"

\* urllib.parse.quote_plus on one character (the reserved characters drawn here)
QuoteChar(c) ==
  IF isalnum(c) \/ c \in {"_", ".", "-", "~"} THEN c
  ELSE IF c = " " THEN "+"
  ELSE IF c = "&" THEN "%26"
  ELSE IF c = "=" THEN "%3D"
  ELSE IF c = "+" THEN "%2B"
  ELSE IF c = "/" THEN "%2F"
  ELSE "%3F"

RECURSIVE quote_plus(_)
quote_plus(s) == IF s = "" THEN "" ELSE QuoteChar(Head(s)) \o quote_plus(Tail(s))

\* a hex digest is alphanumeric: quoting leaves it as it is
QuoteValue(v) == IF v.t = "hexdigest" THEN str(v) ELSE quote_plus(str(v))

\* urllib.parse.urlencode(d): k=v pairs joined by & in the dict's order
RECURSIVE urlencode(_)
urlencode(d) ==
  IF d = <<>> THEN ""
  ELSE LET pair == quote_plus(Head(d)[1]) \o "=" \o QuoteValue(Head(d)[2]) IN
       IF Len(d) = 1 THEN pair ELSE pair \o "&" \o urlencode(Tail(d))

\* requests' encoding of params= / data= : pairs whose value is None are
\* dropped, the others are url-encoded in the dict's order
RequestsEncode(d) == urlencode(SelectSeq(d, LAMBDA kv : kv[2] # None))

\* hmac.new(secret, query, sha256).hexdigest(), kept symbolic
hmac_hexdigest(secret, query) == [t |-> "hexdigest", key |-> secret, msg |-> query]

\* ------------------------------------------------------------ transport
BASE_URL == "https://testnet.binancefuture.com"

BinanceAPIError(code, message) ==
  [type |-> "BinanceAPIError", code |-> code, message |-> message]

HTTPError(status) == [type |-> "HTTPError", status |-> status]

JSONDecodeError == [type |-> "JSONDecodeError"]

ConnectionError == [type |-> "ConnectionError"]

AttributeError == [type |-> "AttributeError"]

\* the exception classes an `except ValueError` clause catches
IsValueError(e) == e.type \in {"ValueError", "JSONDecodeError"}

IsBinanceAPIError(e) == e.type = "BinanceAPIError"

\* a signer that signs the query string before the timestamp is added
_sign_before_timestamp(c, params, now) ==
  With(urlencode(params), LAMBDA query :
    [params |-> DictSet(DictSet(params, "timestamp", PyInt(now)), "signature",
                        hmac_hexdigest(c.api_secret, query)),
     query |-> query])

\* BinanceFuturesClient._sign: the dict passed in is updated in place
_sign(c, params, now) ==
  With(DictSet(params, "timestamp", PyInt(now)), LAMBDA stamped :
    With(urlencode(stamped), LAMBDA query :
      [params |-> DictSet(stamped, "signature", hmac_hexdigest(c.api_secret, query)),
       query |-> query]))

\* resp.json()
json(resp) ==
  IF resp.body.kind = "text" THEN Raise(JSONDecodeError) ELSE Return(resp.body)

\* resp.raise_for_status()
raise_for_status(resp) ==
  IF resp.status >= 400 /\ resp.status < 600 THEN Raise(HTTPError(resp.status))
  ELSE Return(None)

\* a response handler that looks at the HTTP status before the error code
HandleResponse_status_first(resp) ==
  IF ~raise_for_status(resp).ok THEN raise_for_status(resp)
  ELSE With(json(resp), LAMBDA data :
         IF ~data.ok THEN data
         ELSE IF data.value.kind = "dict" /\ "code" \in DOMAIN data.value.d
                 /\ data.value.d.code # 200
         THEN Raise(BinanceAPIError(data.value.d.code,
                      IF "msg" \in DOMAIN data.value.d THEN data.value.d.msg
                      ELSE "Unknown error"))
         ELSE data)

\* the part of _request after the response has arrived
HandleResponse(resp) ==
  With(json(resp), LAMBDA data :
    IF ~data.ok
    THEN IF ~raise_for_status(resp).ok THEN raise_for_status(resp) ELSE data
    ELSE IF data.value.kind = "dict" /\ "code" \in DOMAIN data.value.d
            /\ data.value.d.code # 200
         THEN Raise(BinanceAPIError(data.value.d.code,
                      IF "msg" \in DOMAIN data.value.d THEN data.value.d.msg
                      ELSE "Unknown error"))
         ELSE IF ~raise_for_status(resp).ok THEN raise_for_status(resp)
         ELSE data)

\* a transport that sends the request a second time when the first one fails
_request_retry(c, method, endpoint, params, now, net) ==
  With(_sign(c, IF params = <<>> THEN <<>> ELSE params, now), LAMBDA signed :
    With([verb |-> IF upper(method) = "GET" THEN "GET" ELSE "POST",
          url |-> BASE_URL \o endpoint, api_key |-> c.api_key, given |-> params,
          params |-> signed.params, encoded |-> RequestsEncode(signed.params),
          query |-> signed.query, method |-> method], LAMBDA wire :
      With(IF net.kind = "error" THEN Raise(ConnectionError) ELSE HandleResponse(net),
           LAMBDA result :
        [sent |-> IF result.ok THEN <<wire>> ELSE <<wire, wire>>,
         arg_after |-> IF params = <<>> THEN params ELSE signed.params,
         result |-> result])))

\* a transport whose signer works on a copy of the caller's dict
_request_sign_copy(c, method, endpoint, params, now, net) ==
  With(_sign(c, IF params = <<>> THEN <<>> ELSE params, now), LAMBDA signed :
    [sent |-> << [verb |-> IF upper(method) = "GET" THEN "GET" ELSE "POST",
                  url |-> BASE_URL \o endpoint, api_key |-> c.api_key,
                  given |-> params, params |-> signed.params,
                  encoded |-> RequestsEncode(signed.params),
                  query |-> signed.query, method |-> method] >>,
     arg_after |-> params,
     result |-> IF net.kind = "error" THEN Raise(ConnectionError)
                ELSE HandleResponse(net)])

\* BinanceFuturesClient._request. net is what the network does with the
\* request: it fails to deliver it, or it answers with a status and a body.
\* sent is the request put on the wire (given: the dict the caller passed in;
\* query: the string that was signed), arg_after the caller's dict afterwards:
\* `params or {}` makes a dict of its own only when the caller's is empty.
_request(c, method, endpoint, params, now, net) ==
  With(_sign(c, IF params = <<>> THEN <<>> ELSE params, now), LAMBDA signed :
    [sent |-> << [verb |-> IF upper(method) = "GET" THEN "GET" ELSE "POST",
                  url |-> BASE_URL \o endpoint,
                  api_key |-> c.api_key,
                  given |-> params,
                  params |-> signed.params,
                  encoded |-> RequestsEncode(signed.params),
                  query |-> signed.query,
                  method |-> method] >>,
     arg_after |-> IF params = <<>> THEN params ELSE signed.params,
     result |-> IF net.kind = "error" THEN Raise(ConnectionError)
                ELSE HandleResponse(net)])

\* ----------------------------------------------------- client operations
\* a call that raised before any request was built
NoRequest(exc) == [sent |-> <<>>, arg_after |-> None, result |-> Raise(exc)]

\* a params dict that carries the price whenever one was given
OrderParams_any_price(symbol, side, order_type, quantity, price, stop_price, reduce_only) ==
  << <<"symbol", PyStr(symbol)>>, <<"side", PyStr(side)>>,
     <<"type", PyStr(order_type)>>, <<"quantity", quantity>> >>
  \o (IF price # None THEN << <<"price", price>> >> ELSE <<>>)
  \o (IF order_type = "LIMIT" THEN << <<"timeInForce", PyStr("GTC")>> >> ELSE <<>>)
  \o (IF order_type = "STOP_MARKET" THEN << <<"stopPrice", stop_price>> >> ELSE <<>>)
  \o (IF reduce_only THEN << <<"reduceOnly", PyStr("true")>> >> ELSE <<>>)

\* the params dict of BinanceFuturesClient.place_order
OrderParams(symbol, side, order_type, quantity, price, stop_price, reduce_only) ==
  << <<"symbol", PyStr(symbol)>>, <<"side", PyStr(side)>>,
     <<"type", PyStr(order_type)>>, <<"quantity", quantity>> >>
  \o (IF order_type = "LIMIT"
      THEN << <<"price", price>>, <<"timeInForce", PyStr("GTC")>> >> ELSE <<>>)
  \o (IF order_type = "STOP_MARKET" THEN << <<"stopPrice", stop_price>> >> ELSE <<>>)
  \o (IF reduce_only THEN << <<"reduceOnly", PyStr("true")>> >> ELSE <<>>)

\* BinanceFuturesClient.place_order
client_place_order(c, symbol, side, order_type, quantity, price, stop_price, reduce_only, now, net) ==
  IF order_type = "LIMIT" /\ price = None
  THEN NoRequest(ValueError("price is required for LIMIT orders"))
  ELSE IF order_type = "STOP_MARKET" /\ stop_price = None
  THEN NoRequest(ValueError("stopPrice is required for STOP_MARKET orders"))
  ELSE _request(c, "POST", "/fapi/v1/order",
                OrderParams(symbol, side, order_type, quantity, price, stop_price,
                            reduce_only),
                now, net)

\* BinanceFuturesClient.get_open_orders; symbol is a str or None
get_open_orders(c, symbol, now, net) ==
  _request(c, "GET", "/fapi/v1/openOrders",
           IF symbol # None /\ symbol.v # ""
           THEN << <<"symbol", PyStr(upper(symbol.v))>> >> ELSE <<>>,
           now, net)

\* BinanceFuturesClient.cancel_order
cancel_order(c, symbol, order_id, now, net) ==
  _request(c, "DELETE", "/fapi/v1/order",
           << <<"symbol", PyStr(upper(symbol))>>, <<"orderId", order_id>> >>,
           now, net)

\* BinanceFuturesClient.get_account_balance
get_account_balance(c, now, net) == _request(c, "GET", "/fapi/v2/balance", <<>>, now, net)

\* ------------------------------------------------------- order workflow
\* the record of one run of the order workflow
WorkflowRun(inputs, v, call, report, result) ==
  [inputs |-> inputs, validated |-> v, sent |-> call.sent,
   arg_after |-> call.arg_after, report |-> report, result |-> result]

\* the arguments of one call of the order workflow
Inputs(symbol, side, order_type, quantity, price, stop_price, reduce_only) ==
  [symbol |-> symbol, side |-> side, order_type |-> order_type,
   quantity |-> quantity, price |-> price, stop_price |-> stop_price,
   reduce_only |-> reduce_only]

\* a workflow that sends the order before it looks at the validation
place_order_send_first(c, symbol, side, order_type, quantity, price, stop_price, reduce_only, now, net) ==
  With(validate_all(symbol, side, order_type, quantity, price, stop_price), LAMBDA v :
    With(_request(c, "POST", "/fapi/v1/order",
                  << <<"symbol", PyStr(symbol)>>, <<"quantity", quantity>> >>, now, net),
         LAMBDA call :
      WorkflowRun(Inputs(symbol, side, order_type, quantity, price, stop_price, reduce_only),
                  v, call, <<>>, IF ~v.ok THEN v ELSE call.result)))

\* step 3 and 4 of orders.place_order: the call of the client has returned
AfterSend(inputs, v, call) ==
  IF ~call.result.ok
  THEN WorkflowRun(inputs, v, call,
         IF IsBinanceAPIError(call.result.exc)
         THEN <<[print |-> "ORDER SUMMARY"],
                [print |-> "ORDER FAILED", code |-> call.result.exc.code,
                 message |-> call.result.exc.message]>>
         ELSE <<[print |-> "ORDER SUMMARY"]>>,
         call.result)
  ELSE IF call.result.value.kind # "dict"
  THEN \* response.get(...) on a payload that is not a dict
       WorkflowRun(inputs, v, call, <<[print |-> "ORDER SUMMARY"]>>, Raise(AttributeError))
  ELSE WorkflowRun(inputs, v, call,
                   <<[print |-> "ORDER SUMMARY"], [print |-> "ORDER PLACED SUCCESSFULLY"]>>,
                   call.result)

\* step 1 of orders.place_order has produced v
AfterValidate(c, inputs, v, now, net) ==
  IF ~v.ok
  THEN WorkflowRun(inputs, v, [sent |-> <<>>, arg_after |-> None], <<>>, v)
  ELSE AfterSend(inputs, v,
         client_place_order(c, v.value.symbol, v.value.side, v.value.order_type,
           v.value.quantity, v.value.price,
           IF "stop_price" \in DOMAIN v.value THEN v.value.stop_price ELSE None,
           inputs.reduce_only, now, net))

\* orders.place_order. inputs are the arguments of the call, report is what
\* the workflow prints, in order.
place_order(c, symbol, side, order_type, quantity, price, stop_price, reduce_only, now, net) ==
  AfterValidate(c,
    Inputs(symbol, side, order_type, quantity, price, stop_price, reduce_only),
    validate_all(symbol, side, order_type, quantity, price, stop_price), now, net)

\* ------------------------------------------------------ number parsing
DigitChars == Chars(Digits)

IsDigits(s) == s # "" /\ \A i \in 1..Len(s) : CharAt(s, i) \in DigitChars

DigitValues ==
  [c \in DigitChars |-> (CHOOSE i \in 1..Len(Digits) : CharAt(Digits, i) = c) - 1]

DigitValue(c) == DigitValues[c]

RECURSIVE DigitsValue(_)
DigitsValue(s) ==
  IF s = "" THEN 0
  ELSE 10 * DigitsValue(SubSeq(s, 1, Len(s) - 1)) + DigitValue(CharAt(s, Len(s)))

Unsigned(s) == IF s # "" /\ Head(s) \in {"+", "-"} THEN Tail(s) ELSE s

Signed(s, n) == IF s # "" /\ Head(s) = "-" THEN 0 - n ELSE n

\* float(s) for the literals drawn here: a signed run of digits, or nan
float(s) ==
  With(strip(s), LAMBDA t :
    IF lower(Unsigned(t)) = "nan" THEN Return(NaN)
    ELSE IF IsDigits(Unsigned(t)) THEN Return(PyFloat(Signed(t, DigitsValue(Unsigned(t)))))
    ELSE Raise(ValueError("could not convert string to float")))

\* int(s): a signed run of digits
int(s) ==
  With(strip(s), LAMBDA t :
    IF IsDigits(Unsigned(t)) THEN Return(PyInt(Signed(t, DigitsValue(Unsigned(t)))))
    ELSE Raise(ValueError("invalid literal for int()")))

\* ------------------------------------------------------------------ cli
SystemExit(code) == [type |-> "SystemExit", code |-> code]

\* Python truthiness of a str or None
Truthy(x) == x # None /\ x.v # ""

\* `a or b`
Or(a, b) == IF Truthy(a) THEN a ELSE b

\* a handler that made no call to the exchange
NoCall(result) ==
  [inputs |-> None, validated |-> None, sent |-> <<>>, arg_after |-> None, report |-> <<>>,
   result |-> result]

\* a call of the client outside the order workflow
ClientCall(call) ==
  [inputs |-> None, validated |-> None, sent |-> call.sent, arg_after |-> call.arg_after,
   report |-> <<>>, result |-> call.result]

\* cli._prompt: the stripped answer, or the default when it is empty
_prompt(answer, default) == IF strip(answer) # "" THEN strip(answer) ELSE default

\* cli._get_client. key_in and secret_in are what the operator types when asked.
\* the last lines of _get_client: both credentials or sys.exit
ClientOrExit(api_key, api_secret) ==
  IF ~Truthy(api_key) \/ ~Truthy(api_secret) THEN Raise(SystemExit(1))
  ELSE Return([api_key |-> api_key.v, api_secret |-> api_secret.v])

\* a credential that is missing is asked for
OrAsk(found, answer) == IF ~Truthy(found) THEN PyStr(strip(answer)) ELSE found

_get_client(a, e, key_in, secret_in) ==
  ClientOrExit(OrAsk(Or(a.api_key, e.BINANCE_API_KEY), key_in),
               OrAsk(Or(a.api_secret, e.BINANCE_API_SECRET), secret_in))

\* whether _get_client asks the operator for the key / the secret
AsksKey(a, e) == ~Truthy(Or(a.api_key, e.BINANCE_API_KEY))

AsksSecret(a, e) == ~Truthy(Or(a.api_secret, e.BINANCE_API_SECRET))

\* argparse: --side has choices, --qty, --price and --stop-price are floats
SIDE_CHOICES == {"BUY", "SELL", "buy", "sell"}

OptFloat(x) == IF x = None THEN Return(None) ELSE float(x.v)

parse_args(argv) ==
  IF argv.command # "order" THEN Return(argv)
  ELSE IF argv.side \notin SIDE_CHOICES THEN Raise(SystemExit(2))
  ELSE IF ~float(argv.qty).ok \/ ~OptFloat(argv.price).ok \/ ~OptFloat(argv.stop_price).ok
  THEN Raise(SystemExit(2))
  ELSE Return([argv EXCEPT !.qty = float(argv.qty).value,
                           !.price = OptFloat(argv.price).value,
                           !.stop_price = OptFloat(argv.stop_price).value])

\* an order command that swallows a ValueError
OrderEnds_swallow(run) ==
  IF run.result.ok \/ IsValueError(run.result.exc)
  THEN [run |-> run, end |-> "return", code |-> 0, handler |-> "none"]
  ELSE [run |-> run, end |-> "exit", code |-> 1, handler |-> "Order failed"]

\* the except clauses of cmd_order
OrderEnds(run) ==
  IF run.result.ok THEN [run |-> run, end |-> "return", code |-> 0, handler |-> "none"]
  ELSE IF IsValueError(run.result.exc) \/ IsBinanceAPIError(run.result.exc)
  THEN [run |-> run, end |-> "exit", code |-> 1, handler |-> "Order failed"]
  ELSE [run |-> run, end |-> "exit", code |-> 1, handler |-> "Unexpected error"]

\* the body of cmd_order after _get_client: how the handler ends
cmd_order(a, c, now, net) ==
  OrderEnds(place_order(c, a.symbol, upper(a.side), upper(a.type), a.qty,
                        a.price, a.stop_price, a.reduce_only, now, net))

\* the loop over the balances and the except clause of cmd_balance
BalanceEnds(run) ==
  IF ~run.result.ok
  THEN IF IsBinanceAPIError(run.result.exc)
       THEN [run |-> run, end |-> "exit", code |-> 1, handler |-> "sys.exit"]
       ELSE [run |-> run, end |-> "raise", code |-> 1, handler |-> "none"]
  ELSE IF run.result.value.kind = "dict" /\ DOMAIN run.result.value.d # {}
  THEN \* iterating a dict yields its keys: asset.get on a str
       [run |-> [run EXCEPT !.result = Raise(AttributeError)],
        end |-> "raise", code |-> 1, handler |-> "none"]
  ELSE [run |-> run, end |-> "return", code |-> 0, handler |-> "none"]

\* the body of cmd_balance after _get_client
cmd_balance(c, now, net) == BalanceEnds(ClientCall(get_account_balance(c, now, net)))

\* a handler that returns to its caller without a call of the exchange
Returns(result, handler) ==
  [run |-> NoCall(result), end |-> "return", code |-> 0, handler |-> handler]

\* the except clause of _interactive_place_order
InteractiveOrderEnds(run) ==
  IF run.result.ok THEN [run |-> run, end |-> "return", code |-> 0, handler |-> "none"]
  ELSE IF IsValueError(run.result.exc) \/ IsBinanceAPIError(run.result.exc)
  THEN [run |-> run, end |-> "return", code |-> 0, handler |-> "Interactive order error"]
  ELSE [run |-> run, end |-> "raise", code |-> 1, handler |-> "none"]

\* a place-order flow that does not look at the confirmation
PlaceAnswered_unconfirmed(c, symbol, side, order_type, qty, price, stop_price, confirm, now, net) ==
  IF ~qty.ok THEN Returns(Return(None), "Invalid quantity.")
  ELSE IF ~price.ok THEN Returns(Return(None), "Invalid price.")
  ELSE IF ~stop_price.ok THEN Returns(Return(None), "Invalid stop price.")
  ELSE InteractiveOrderEnds(
         place_order(c, symbol, side, order_type, qty.value, price.value,
                     stop_price.value, FALSE, now, net))

\* _interactive_place_order once every answer has been read
PlaceAnswered(c, symbol, side, order_type, qty, price, stop_price, confirm, now, net) ==
  IF ~qty.ok THEN Returns(Return(None), "Invalid quantity.")
  ELSE IF ~price.ok THEN Returns(Return(None), "Invalid price.")
  ELSE IF ~stop_price.ok THEN Returns(Return(None), "Invalid stop price.")
  ELSE IF confirm \notin {"yes", "y"} THEN Returns(Return(None), "Order cancelled.")
  ELSE InteractiveOrderEnds(
         place_order(c, symbol, side, order_type, qty.value, price.value,
                     stop_price.value, FALSE, now, net))

\* cli._interactive_place_order. ans holds the operator's answers; an answer
\* to a question that is not asked is never read.
_interactive_place_order(c, ans, now, net) ==
  With(upper(_prompt(ans.type, "MARKET")), LAMBDA order_type :
    PlaceAnswered(c,
      upper(_prompt(ans.symbol, "BTCUSDT")),
      upper(_prompt(ans.side, "BUY")),
      order_type,
      float(_prompt(ans.qty, "")),
      IF order_type = "LIMIT" THEN float(_prompt(ans.price, "")) ELSE Return(None),
      IF order_type = "STOP_MARKET" THEN float(_prompt(ans.stop, "")) ELSE Return(None),
      lower(_prompt(ans.confirm, "yes")),
      now, net))

\* the listing and the except clause of _interactive_open_orders
OpenOrdersEnds(run) ==
  IF ~run.result.ok
  THEN IF IsBinanceAPIError(run.result.exc)
       THEN [run |-> run, end |-> "return", code |-> 0, handler |-> "printed"]
       ELSE [run |-> run, end |-> "raise", code |-> 1, handler |-> "none"]
  ELSE IF run.result.value.kind = "dict" /\ DOMAIN run.result.value.d # {}
  THEN \* iterating a dict yields its keys: o['orderId'] on a str
       [run |-> [run EXCEPT !.result = Raise([type |-> "TypeError"])],
        end |-> "raise", code |-> 1, handler |-> "none"]
  ELSE [run |-> run, end |-> "return", code |-> 0, handler |-> "none"]

\* cli._interactive_open_orders
_interactive_open_orders(c, ans, now, net) ==
  With(upper(_prompt(ans.symbol, "")), LAMBDA answer :
    OpenOrdersEnds(ClientCall(
      get_open_orders(c, IF answer # "" THEN PyStr(answer) ELSE None, now, net))))

\* the except clause of _interactive_cancel_order
CancelEnds(run) ==
  IF ~run.result.ok
  THEN IF IsValueError(run.result.exc) \/ IsBinanceAPIError(run.result.exc)
       THEN [run |-> run, end |-> "return", code |-> 0, handler |-> "printed"]
       ELSE [run |-> run, end |-> "raise", code |-> 1, handler |-> "none"]
  ELSE IF run.result.value.kind # "dict"
  THEN \* result.get(...) on a payload that is not a dict
       [run |-> [run EXCEPT !.result = Raise(AttributeError)],
        end |-> "raise", code |-> 1, handler |-> "none"]
  ELSE [run |-> run, end |-> "return", code |-> 0, handler |-> "none"]

\* cli._interactive_cancel_order
_interactive_cancel_order(c, ans, now, net) ==
  With(int(_prompt(ans.order_id, "")), LAMBDA order_id :
    IF ~order_id.ok THEN Returns(order_id, "printed")
    ELSE CancelEnds(ClientCall(
           cancel_order(c, upper(_prompt(ans.symbol, "BTCUSDT")), order_id.value,
                        now, net))))

\* ------------------------------------------- inputs of the validator run
RawSymbols == {"btc", " Btc1 ", "", "  ", "B-T"}

RawSides == {"BUY", " sell ", "HOLD", ""}

RawTypes == {"MARKET", " limit ", "STOP_MARKET", "STOP", ""}

Quantities == {PyFloat(1), PyFloat(0), PyFloat(-1), NaN}

Prices == {None, PyFloat(2), PyFloat(0), PyFloat(-1), NaN}

ValidateInit ==
  /\ pc = "validate"
  /\ args = None
  /\ env = None
  /\ client = None
  /\ steps = 0
  /\ last = None
  /\ exit_code = None
  /\ vin \in [symbol : RawSymbols, side : RawSides, order_type : RawTypes,
              quantity : Quantities, price : Prices, stop_price : Prices]
  /\ vout = None

\* one call of validate_all on the drawn inputs
Validate ==
  /\ pc = "validate"
  /\ vout' = validate_all(vin.symbol, vin.side, vin.order_type,
                          vin.quantity, vin.price, vin.stop_price)
  /\ pc' = "validated"
  /\ UNCHANGED <<args, env, client, steps, last, exit_code, vin>>

ValidateNext == Validate

SpecValidate == ValidateInit /\ [][ValidateNext]_vars

\* ------------------------------------------------ inputs of the cli run
Statuses == {200, 500}

Bodies ==
  { [kind |-> "text"],
    [kind |-> "dict", d |-> [orderId |-> 7, status |-> "NEW"]],
    [kind |-> "dict", d |-> [code |-> 200, msg |-> "ok"]],
    [kind |-> "dict", d |-> [code |-> -1000, msg |-> "bad request"]],
    [kind |-> "dict", d |-> [code |-> -2019]],
    [kind |-> "list", n |-> 1] }

\* what the network does with a request
Nets ==
  {[kind |-> "error"]}
    \cup {[kind |-> "response", status |-> st, body |-> b] : st \in Statuses, b \in Bodies}

\* a handler that sends nothing never looks at the network: one value stands
\* for all of them
NoNet == [kind |-> "error"]

Timestamps == {1001, 1002}

OrderArgvs ==
  [command : {"order"},
   symbol : {"btcusdt", "B-T"},
   side : {"BUY", "sell", "HOLD"},
   type : {"MARKET", "limit", "STOP_MARKET", "STOP"},
   qty : {"1", "0", "x"},
   price : {None, PyStr("2"), PyStr("0")},
   stop_price : {None, PyStr("3")},
   reduce_only : BOOLEAN,
   api_key : {None, PyStr("FK")},
   api_secret : {None, PyStr("FS")}]

OtherArgvs ==
  {[command |-> cmd, api_key |-> f[1], api_secret |-> f[2]] :
     cmd \in {"balance", "interactive"},
     f \in {<<None, None>>, <<PyStr("FK"), PyStr("FS")>>}}

Envs ==
  {[BINANCE_API_KEY |-> None, BINANCE_API_SECRET |-> None],
   [BINANCE_API_KEY |-> PyStr("EK"), BINANCE_API_SECRET |-> PyStr("ES")]}

CredAnswers == {"", " PK "}

\* what the operator answers when asked for the credentials a second time
CredAnswersAgain == {"", "QK"}

PlaceAnswers ==
  [symbol : {"", "b-t"}, side : {"sell", "hold"}, type : {"", "limit", "stop_market"},
   qty : {"1", "0", "x"}, price : {"2", "x"}, stop : {"3", "x"}, confirm : {"", "Y", "no"}]

OpenOrdersAnswers == [symbol : {"", "eth usdt"}]

CancelAnswers == [symbol : {"", "ethusdt"}, order_id : {"42", "4x", ""}]

MenuChoices == {"1", "2", "3", "4", "q", " Q ", "9", ""}

\* the answers _get_client reads: a question that is not asked takes no answer
KeyAnswers(a, e) == IF AsksKey(a, e) THEN CredAnswers ELSE {""}

SecretAnswers(a, e) == IF AsksSecret(a, e) THEN CredAnswers ELSE {""}

\* the network acts only on a request that was sent
NetsFor(sent) == IF sent # <<>> THEN Nets ELSE {NoNet}

\* the clock is read only when a request is signed
NoTime == 1001

TimesFor(sent) == IF sent # <<>> THEN Timestamps ELSE {NoTime}

\* the record of a finished handler: the client it used, what the network
\* did with its request (None when it sent none) and how it ended
Done(action, input, c, net, h) ==
  [action |-> action, input |-> input, client |-> c,
   net |-> IF h.run.sent = <<>> THEN None ELSE net,
   run |-> h.run, end |-> h.end, handler |-> h.handler]

Init ==
  /\ pc = "main"
  /\ args \in OrderArgvs \cup OtherArgvs
  /\ env \in Envs
  /\ client = None
  /\ steps = 0
  /\ last = None
  /\ exit_code = None
  /\ vin = None
  /\ vout = None

\* main: parse_args rejects the command line (exit status 2)
MainUsage ==
  /\ pc = "main"
  /\ ~parse_args(args).ok
  /\ pc' = "exited"
  /\ exit_code' = PyInt(2)
  /\ last' = Done("parse_args", None, None, None,
                  [run |-> NoCall(parse_args(args)), end |-> "exit", code |-> 2,
                   handler |-> "argparse"])
  /\ UNCHANGED <<args, env, client, steps, vin, vout>>

\* the process ends in _get_client: sys.exit with a message is exit status 1
ExitNoCredentials(action, input, g) ==
  /\ pc' = "exited"
  /\ exit_code' = PyInt(1)
  /\ last' = Done(action, input, None, None,
                  [run |-> NoCall(g), end |-> "exit", code |-> 1,
                   handler |-> "API credentials missing."])
  /\ UNCHANGED <<args, env, client, steps, vin, vout>>

\* the process ends after a flag-driven command with the handler's code: a
\* return from main is exit status 0, sys.exit(n) is n, sys.exit(message) and
\* an exception nobody catches (a traceback) are 1
ExitAfter(action, input, c, net, h) ==
  /\ pc' = "exited"
  /\ exit_code' = PyInt(h.code)
  /\ client' = c
  /\ last' = Done(action, input, c, net, h)
  /\ UNCHANGED <<args, env, steps, vin, vout>>

\* what _get_client reads from the operator
CredInputs(a, e) == [key_in : KeyAnswers(a, e), secret_in : SecretAnswers(a, e)]

\* what _get_client reads from the operator when cmd_balance runs in the menu
CredInputsAgain(a, e) ==
  [key_in : IF AsksKey(a, e) THEN CredAnswersAgain ELSE {""},
   secret_in : IF AsksSecret(a, e) THEN CredAnswersAgain ELSE {""}]

\* main with the order command: cmd_order from _get_client to the end
MainOrder ==
  /\ pc = "main"
  /\ parse_args(args).ok
  /\ args.command = "order"
  /\ \E input \in CredInputs(args, env), a \in {parse_args(args).value} :
     \E g \in {_get_client(a, env, input.key_in, input.secret_in)} :
       IF ~g.ok THEN ExitNoCredentials("order", input, g)
       ELSE \E sent \in {cmd_order(a, g.value, NoTime, NoNet).run.sent} :
            \E now \in TimesFor(sent), net \in NetsFor(sent) :
            \E h \in {cmd_order(a, g.value, now, net)} :
              ExitAfter("order", input, g.value, net, h)

\* main with the balance command: cmd_balance from _get_client to the end
MainBalance ==
  /\ pc = "main"
  /\ args.command = "balance"
  /\ \E input \in CredInputs(args, env) :
     \E g \in {_get_client(args, env, input.key_in, input.secret_in)} :
       IF ~g.ok THEN ExitNoCredentials("balance", input, g)
       ELSE \E now \in Timestamps, net \in Nets :
            \E h \in {cmd_balance(g.value, now, net)} :
              ExitAfter("balance", input, g.value, net, h)

\* main with the interactive command: cmd_interactive up to the first menu
MainInteractive ==
  /\ pc = "main"
  /\ args.command = "interactive"
  /\ \E input \in CredInputs(args, env) :
     \E g \in {_get_client(args, env, input.key_in, input.secret_in)} :
       IF ~g.ok THEN ExitNoCredentials("interactive", input, g)
       ELSE /\ pc' = "menu"
            /\ client' = g.value
            /\ last' = Done("interactive", input, g.value, None, Returns(g, "none"))
            /\ UNCHANGED <<args, env, steps, exit_code, vin, vout>>

\* the state after a menu choice: back at the menu after a return, out of
\* the process after sys.exit or an exception nobody catches
AfterChoice(action, input, c, net, h) ==
  /\ steps' = steps + 1
  /\ last' = Done(action, input, c, net, h)
  /\ IF h.end = "return"
     THEN pc' = "menu" /\ exit_code' = exit_code
     ELSE /\ pc' = "exited"
          /\ exit_code' = PyInt(h.code)
  /\ UNCHANGED <<args, env, client, vin, vout>>

\* the answers _interactive_place_order reads
PlaceAnswersAsked ==
  {ans \in PlaceAnswers :
     /\ upper(_prompt(ans.type, "MARKET")) # "LIMIT" => ans.price = "x"
     /\ upper(_prompt(ans.type, "MARKET")) # "STOP_MARKET" => ans.stop = "x"}

\* menu choice 1
MenuPlaceOrder ==
  /\ pc = "menu"
  /\ steps < MaxChoices
  /\ \E ans \in PlaceAnswersAsked :
     \E sent \in {_interactive_place_order(client, ans, NoTime, NoNet).run.sent} :
     \E now \in TimesFor(sent), net \in NetsFor(sent) :
     \E h \in {_interactive_place_order(client, ans, now, net)} :
       AfterChoice("1", ans, client, net, h)

\* menu choice 2: cmd_balance(args), which resolves the credentials again
MenuBalance ==
  /\ pc = "menu"
  /\ steps < MaxChoices
  /\ \E input \in CredInputsAgain(args, env) :
     \E g \in {_get_client(args, env, input.key_in, input.secret_in)} :
       IF ~g.ok
       THEN AfterChoice("2", input, None, None,
              [run |-> NoCall(g), end |-> "exit", code |-> 1,
               handler |-> "API credentials missing."])
       ELSE \E now \in Timestamps, net \in Nets :
            \E h \in {cmd_balance(g.value, now, net)} :
              AfterChoice("2", input, g.value, net, h)

\* menu choice 3
MenuOpenOrders ==
  /\ pc = "menu"
  /\ steps < MaxChoices
  /\ \E ans \in OpenOrdersAnswers, now \in Timestamps, net \in Nets :
     \E h \in {_interactive_open_orders(client, ans, now, net)} :
       AfterChoice("3", ans, client, net, h)

\* menu choice 4
MenuCancelOrder ==
  /\ pc = "menu"
  /\ steps < MaxChoices
  /\ \E ans \in CancelAnswers :
     \E sent \in {_interactive_cancel_order(client, ans, NoTime, NoNet).run.sent} :
     \E now \in TimesFor(sent), net \in NetsFor(sent) :
     \E h \in {_interactive_cancel_order(client, ans, now, net)} :
       AfterChoice("4", ans, client, net, h)

\* any other answer at the menu
MenuUnknown ==
  /\ pc = "menu"
  /\ steps < MaxChoices
  /\ \E choice \in MenuChoices :
       /\ lower(strip(choice)) \notin {"q", "1", "2", "3", "4"}
       /\ AfterChoice(choice, None, client, None,
                      Returns(Return(None), "Unknown option."))

\* menu choice q: the loop breaks, cmd_interactive and main return
MenuQuit ==
  /\ pc = "menu"
  /\ \E choice \in MenuChoices :
       /\ lower(strip(choice)) = "q"
       /\ pc' = "exited"
       /\ exit_code' = PyInt(0)
       /\ last' = Done("q", None, client, None, Returns(Return(None), "Goodbye!"))
       /\ UNCHANGED <<args, env, client, steps, vin, vout>>

Next ==
  \/ MainUsage
  \/ MainOrder
  \/ MainBalance
  \/ MainInteractive
  \/ MenuPlaceOrder
  \/ MenuBalance
  \/ MenuOpenOrders
  \/ MenuCancelOrder
  \/ MenuUnknown
  \/ MenuQuit

Spec == Init /\ [][Next]_vars

\* ================================================================ claims
\* the last handler ran the order workflow (orders.place_order)
OrderWorkflowRan == last # None /\ last.run.inputs # None

\* the validation of the arguments the workflow was called with
InputValidation ==
  validate_all(last.run.inputs.symbol, last.run.inputs.side, last.run.inputs.order_type,
               last.run.inputs.quantity, last.run.inputs.price,
               last.run.inputs.stop_price)

\* C1: whenever the order workflow is called with arguments that fail
\* validation, it ends with that validation error (a ValueError) and no
\* request was signed or sent; the order command then exits with 1, the
\* interactive menu reports the error and shows the menu again.
C1_InvalidInputNeverSent ==
  (OrderWorkflowRan /\ ~InputValidation.ok) =>
     /\ last.run.sent = <<>>
     /\ last.net = None
     /\ last.run.result = InputValidation
     /\ last.run.result.exc.type = "ValueError"
     /\ last.action = "order" =>
          pc = "exited" /\ exit_code = PyInt(1) /\ last.handler = "Order failed"
     /\ last.action = "1" =>
          pc = "menu" /\ last.handler = "Interactive order error"

\* an order command with a symbol that is not alphanumeric has ended
C1_Witness ==
  /\ OrderWorkflowRan
  /\ last.action = "order"
  /\ ~validate_symbol(last.run.inputs.symbol).ok
  /\ pc = "exited"

\* an interactive order with quantity 0 has been confirmed and rejected
C1_WitnessMenu ==
  /\ OrderWorkflowRan
  /\ last.action = "1"
  /\ last.run.inputs.quantity = PyFloat(0)
  /\ pc = "menu"

\* the rule of the claim on the drawn inputs, after trim and uppercase
C2_Rule ==
  LET symbol == upper(strip(vin.symbol))
      side   == upper(strip(vin.side))
      type   == upper(strip(vin.order_type))
  IN /\ symbol # ""
     /\ \A i \in 1..Len(symbol) : CharAt(symbol, i) \in AlnumChars
     /\ side \in {"BUY", "SELL"}
     /\ type \in {"MARKET", "LIMIT", "STOP_MARKET"}
     /\ GtZero(vin.quantity)
     /\ type \in {"LIMIT", "STOP_MARKET"} => (vin.price # None /\ GtZero(vin.price))
     /\ type = "STOP_MARKET" => (vin.stop_price # None /\ GtZero(vin.stop_price))

\* what a successful validation returns
C2_Returned ==
  /\ vout.value.symbol = upper(strip(vin.symbol))
  /\ vout.value.side = upper(strip(vin.side))
  /\ vout.value.order_type = upper(strip(vin.order_type))
  /\ "stop_price" \in DOMAIN vout.value <=> upper(strip(vin.order_type)) = "STOP_MARKET"

\* C2: validate_all succeeds if and only if, after trim and uppercase, the
\* symbol is non-empty and alphanumeric, the side is BUY or SELL, the type is
\* MARKET, LIMIT or STOP_MARKET, quantity > 0, price is present and > 0 for
\* LIMIT and STOP_MARKET, and stopPrice is present and > 0 for STOP_MARKET; on
\* success it returns the normalised symbol, side and type, with a stop_price
\* entry only for STOP_MARKET.
C2_ValidateAllIff ==
  pc = "validated" => /\ vout.ok <=> C2_Rule
                      /\ vout.ok => C2_Returned

\* the same statement on the inputs that hold no nan
C2_ValidateAllIffOnNumbers ==
  (pc = "validated" /\ NaN \notin {vin.quantity, vin.price, vin.stop_price}) =>
     /\ vout.ok <=> C2_Rule
     /\ vout.ok => C2_Returned

\* the order workflow got a STOP_MARKET order with a valid symbol and side,
\* quantity > 0 and stopPrice > 0, and no price
StopMarketWithoutPrice ==
  /\ OrderWorkflowRan
  /\ last.run.inputs.order_type = "STOP_MARKET"
  /\ last.run.inputs.price = None
  /\ validate_symbol(last.run.inputs.symbol).ok
  /\ validate_side(last.run.inputs.side).ok
  /\ GtZero(last.run.inputs.quantity)
  /\ GtZero(last.run.inputs.stop_price)

\* C3: price is required only for LIMIT: a STOP_MARKET order with a valid
\* symbol and side, quantity > 0 and stopPrice > 0 but no price passes
\* validation and is submitted to the exchange.
C3_StopMarketNeedsNoPrice ==
  StopMarketWithoutPrice => (last.run.validated.ok /\ last.run.sent # <<>>)

\* the last handler sent a request and the exchange answered it
Answered == last # None /\ last.net # None /\ last.net.kind = "response"

\* the answer is an object with an error code other than 200
ErrorBody ==
  /\ Answered
  /\ last.net.body.kind = "dict"
  /\ "code" \in DOMAIN last.net.body.d
  /\ last.net.body.d.code # 200

\* C4: whenever the response body is an object with an error code other than
\* 200, at any HTTP status, the call fails with a BinanceAPIError that
\* carries that code and the body's message ("Unknown error" when the body
\* has none); the order workflow prints the code and message and the same
\* error reaches its caller.
C4_ErrorCodeRaisesApiError ==
  ErrorBody =>
    /\ ~last.run.result.ok
    /\ last.run.result.exc.type = "BinanceAPIError"
    /\ last.run.result.exc.code = last.net.body.d.code
    /\ "msg" \in DOMAIN last.net.body.d =>
         last.run.result.exc.message = last.net.body.d.msg
    /\ OrderWorkflowRan =>
         /\ last.run.report[Len(last.run.report)] =
              [print |-> "ORDER FAILED", code |-> last.net.body.d.code,
               message |-> last.run.result.exc.message]
         /\ last.handler \in {"Order failed", "Interactive order error"}

\* the order workflow got an error code in a response of HTTP status 200
C4_Witness ==
  /\ ErrorBody
  /\ OrderWorkflowRan
  /\ last.net.status = 200
  /\ last.net.body.d.code = -1000

\* C5: whenever the response body cannot be parsed, at any HTTP status, the
\* call fails with a transport failure that carries the HTTP status, which
\* is neither a BinanceAPIError nor an error that `except ValueError`, the
\* clause for input-validation errors, catches.
C5_UnparsableBodySurfacesStatus ==
  (Answered /\ last.net.body.kind = "text") =>
    /\ ~last.run.result.ok
    /\ last.run.result.exc = HTTPError(last.net.status)
    /\ ~IsValueError(last.run.result.exc)
    /\ ~IsBinanceAPIError(last.run.result.exc)

\* the same statement for the HTTP statuses of failure
C5_UnparsableFailureStatus ==
  (Answered /\ last.net.body.kind = "text" /\ last.net.status >= 400) =>
    /\ ~last.run.result.ok
    /\ last.run.result.exc = HTTPError(last.net.status)

\* what one sent request must look like, for the secret of the client
SignedAsSent(w, secret) ==
  /\ Len(w.params) = Len(w.given) + 2
  /\ SubSeq(w.params, 1, Len(w.given)) = w.given
  /\ w.params[Len(w.given) + 1][1] = "timestamp"
  /\ w.params[Len(w.given) + 1][2].t = "int"
  /\ w.params[Len(w.given) + 2][1] = "signature"
  /\ {"timestamp", "signature"} \cap Keys(w.given) = {}
  /\ w.query = urlencode(SubSeq(w.params, 1, Len(w.given) + 1))
  /\ w.params[Len(w.given) + 2][2] = hmac_hexdigest(secret, w.query)
  /\ w.encoded = w.query \o "&signature=" \o str(w.params[Len(w.given) + 2][2])

\* C6: every request sent carries the caller's parameters, then timestamp,
\* then signature; the signature is the HMAC, under the client's secret, of
\* the encoding of the caller's parameters and timestamp in that order, and
\* the transmitted string is the signed string followed by the signature.
C6_SignedAsSent ==
  last # None =>
    \A i \in 1..Len(last.run.sent) : SignedAsSent(last.run.sent[i], last.client.api_secret)

\* a LIMIT order was sent
C6_Witness ==
  /\ OrderWorkflowRan
  /\ last.run.sent # <<>>
  /\ "timeInForce" \in Keys(last.run.sent[1].given)

\* C7: every request goes out with the HTTP method the operation asked for
\* (a cancel as DELETE, never as a POST to the order endpoint).
C7_SentWithRequestedMethod ==
  last # None =>
    \A i \in 1..Len(last.run.sent) : last.run.sent[i].verb = upper(last.run.sent[i].method)

\* C8: the interactive session ends only when the operator chooses quit:
\* whatever fails in a menu action, the menu is shown again. (The exit for
\* missing credentials happens before the first menu.)
C8_MenuEndsOnlyOnQuit ==
  (pc = "exited" /\ args.command = "interactive" /\ last.action # "interactive") =>
     last.action = "q"

\* the answer is a successful payload of the order endpoint: an object
\* without an error code, under an HTTP status of success
SuccessfulPayload ==
  /\ Answered
  /\ last.net.status < 400
  /\ last.net.body.kind = "dict"
  /\ "code" \in DOMAIN last.net.body.d => last.net.body.d.code = 200

\* flags, environment and prompt together gave no key or no secret
CredentialsMissing ==
  \/ AsksKey(args, env) /\ strip(last.input.key_in) = ""
  \/ AsksSecret(args, env) /\ strip(last.input.secret_in) = ""

\* C9: the order command exits with 0 exactly when the order was validated,
\* sent and answered with a successful payload; it exits with 1 when
\* validation fails or the exchange returns an API error; with missing
\* credentials it exits with a non-zero code, no client created, nothing sent.
C9_OrderExitCode ==
  (pc = "exited" /\ args.command = "order" /\ last.action = "order") =>
    /\ exit_code = PyInt(0) <=>
         (OrderWorkflowRan /\ InputValidation.ok /\ last.run.sent # <<>> /\ SuccessfulPayload)
    /\ (OrderWorkflowRan /\ ~InputValidation.ok) => exit_code = PyInt(1)
    /\ ErrorBody => exit_code = PyInt(1)
    /\ CredentialsMissing =>
         exit_code # PyInt(0) /\ client = None /\ last.run.sent = <<>>

\* an order command has been answered with a successful payload
C9_Witness ==
  /\ pc = "exited"
  /\ last.action = "order"
  /\ SuccessfulPayload
  /\ exit_code = PyInt(0)

\* an order command has ended for missing credentials
C9_WitnessNoCredentials ==
  /\ pc = "exited"
  /\ last.action = "order"
  /\ CredentialsMissing

\* the operator's answers to menu choice 1 or 4 hold a number that does not
\* parse, or decline the confirmation
NoRequestAnswers ==
  \/ /\ last.action = "1"
     /\ \/ ~float(_prompt(last.input.qty, "")).ok
        \/ /\ upper(_prompt(last.input.type, "MARKET")) = "LIMIT"
           /\ ~float(_prompt(last.input.price, "")).ok
        \/ /\ upper(_prompt(last.input.type, "MARKET")) = "STOP_MARKET"
           /\ ~float(_prompt(last.input.stop, "")).ok
        \/ lower(_prompt(last.input.confirm, "yes")) \notin {"yes", "y"}
  \/ /\ last.action = "4"
     /\ ~int(_prompt(last.input.order_id, "")).ok

\* the last menu choice was none of 1, 2, 3, 4 and q
UnknownChoice ==
  last.action \notin {"parse_args", "order", "balance", "interactive", "1", "2", "3", "4", "q"}

\* C10: one command or one menu choice sends at most one request, also when
\* that request fails; an unknown menu choice, a declined confirmation and a
\* number that does not parse send none.
C10_AtMostOneRequest ==
  last # None =>
    /\ Len(last.run.sent) <= 1
    /\ (UnknownChoice \/ NoRequestAnswers) => last.run.sent = <<>>

\* a cancel was sent and failed with an API error
C10_Witness ==
  /\ last # None
  /\ last.action = "4"
  /\ ErrorBody
  /\ Len(last.run.sent) = 1

\* a confirmation was declined
C10_WitnessDeclined ==
  /\ last # None
  /\ last.action = "1"
  /\ float(_prompt(last.input.qty, "")).ok
  /\ lower(_prompt(last.input.confirm, "yes")) = "no"

\* C11: the credentials are resolved once per invocation: the client every
\* command and every menu choice uses is the one client of the invocation,
\* and every request carries that client's key and is signed with its secret.
C11_ResolvedOnce ==
  (last # None /\ client # None) =>
    /\ last.client = client
    /\ \A i \in 1..Len(last.run.sent) :
         /\ last.run.sent[i].api_key = client.api_key
         /\ last.run.sent[i].params[Len(last.run.sent[i].params)][2].key = client.api_secret

\* the same statement for everything but menu choice 2
C11_ResolvedOnceButBalance ==
  (last # None /\ client # None /\ last.action # "2") =>
    /\ last.client = client
    /\ \A i \in 1..Len(last.run.sent) :
         /\ last.run.sent[i].api_key = client.api_key
         /\ last.run.sent[i].params[Len(last.run.sent[i].params)][2].key = client.api_secret

\* the last handler sent a request
RequestSent == last # None /\ last.run.sent # <<>>

\* C12: the signer returns a new mapping with exactly two keys more than its
\* input, timestamp and signature, and leaves the caller's mapping as it was:
\* after _request returns, the caller's mapping has neither key.
C12_CallerMappingUnchanged ==
  RequestSent =>
    /\ Keys(last.run.sent[1].params) =
         Keys(last.run.sent[1].given) \cup {"timestamp", "signature"}
    /\ Len(last.run.sent[1].params) = Len(last.run.sent[1].given) + 2
    /\ last.run.arg_after = last.run.sent[1].given
    /\ {"timestamp", "signature"} \cap Keys(last.run.arg_after) = {}

\* C12 as amended: the signer adds timestamp and signature to the mapping it
\* is given and returns that mapping, which has exactly those two keys more
\* than before; after _request returns, a caller's mapping that was not empty
\* is the mapping that was sent, and an empty one is still empty (the request
\* was built from a mapping of _request's own).
C12_SignedInPlace ==
  RequestSent =>
    /\ Keys(last.run.sent[1].params) =
         Keys(last.run.sent[1].given) \cup {"timestamp", "signature"}
    /\ Len(last.run.sent[1].params) = Len(last.run.sent[1].given) + 2
    /\ last.run.sent[1].given # <<>> =>
         last.run.arg_after = last.run.sent[1].params
    /\ last.run.sent[1].given = <<>> => last.run.arg_after = <<>>

\* an order was sent: the mapping of place_order now holds the signature
C12_Witness ==
  /\ RequestSent
  /\ OrderWorkflowRan
  /\ "signature" \in Keys(last.run.arg_after)

\* a balance request was sent: no mapping was passed in
C12_WitnessEmpty ==
  /\ RequestSent
  /\ last.action = "balance"
  /\ last.run.sent[1].given = <<>>

\* the numbers the place-order flow asked for all parse
PlaceNumbersParse ==
  /\ float(_prompt(last.input.qty, "")).ok
  /\ upper(_prompt(last.input.type, "MARKET")) = "LIMIT" =>
       float(_prompt(last.input.price, "")).ok
  /\ upper(_prompt(last.input.type, "MARKET")) = "STOP_MARKET" =>
       float(_prompt(last.input.stop, "")).ok

\* the confirmation answer is yes or y in any case, or empty
PlaceConfirmed == lower(_prompt(last.input.confirm, "yes")) \in {"yes", "y"}

\* C13: in the interactive place-order flow a request is sent only after the
\* confirmation was answered yes or y (any case, empty means yes); with any
\* other answer, or a quantity, limit price or stop price that does not
\* parse, the flow is back at the menu with no validation run and nothing sent.
C13_SentOnlyWhenConfirmed ==
  (last # None /\ last.action = "1") =>
    /\ last.run.sent # <<>> => (PlaceConfirmed /\ PlaceNumbersParse)
    /\ ~(PlaceConfirmed /\ PlaceNumbersParse) =>
         /\ pc = "menu"
         /\ last.end = "return"
         /\ last.run.inputs = None
         /\ last.run.validated = None
         /\ last.run.sent = <<>>
    /\ (PlaceConfirmed /\ PlaceNumbersParse) => last.run.validated # None

\* an order confirmed with Y was sent
C13_Witness ==
  /\ last # None
  /\ last.action = "1"
  /\ last.input.confirm = "Y"
  /\ last.run.sent # <<>>

\* the quantity did not parse
C13_WitnessUnparsable ==
  /\ last # None
  /\ last.action = "1"
  /\ last.input.qty = "x"
  /\ last.input.confirm = ""
  /\ pc = "menu"

\* the value of key k in the dict d
ParamValue(d, k) == d[CHOOSE i \in 1..Len(d) : d[i][1] = k][2]

\* the parameters the order workflow handed to the signer
OrderGiven == last.run.sent[1].given

\* the normalised type of the order
OrderType == upper(strip(last.run.inputs.order_type))

\* the keys an order of this type and flag must carry
OrderKeys ==
  {"symbol", "side", "type", "quantity"}
    \cup (IF OrderType = "LIMIT" THEN {"price", "timeInForce"} ELSE {})
    \cup (IF OrderType = "STOP_MARKET" THEN {"stopPrice"} ELSE {})
    \cup (IF last.run.inputs.reduce_only THEN {"reduceOnly"} ELSE {})

\* C14: for every order that passes validation the parameters handed to the
\* signer are exactly symbol, side, type and quantity (normalised), price and
\* timeInForce=GTC iff the type is LIMIT, stopPrice iff it is STOP_MARKET,
\* reduceOnly=true iff the flag was set; a price given with a MARKET or
\* STOP_MARKET order is not sent, and menu orders never carry reduceOnly.
C14_OrderParameters ==
  (OrderWorkflowRan /\ last.run.validated.ok) =>
    /\ Len(last.run.sent) = 1
    /\ Keys(OrderGiven) = OrderKeys
    /\ Len(OrderGiven) = Cardinality(OrderKeys)
    /\ ParamValue(OrderGiven, "symbol") = PyStr(upper(strip(last.run.inputs.symbol)))
    /\ ParamValue(OrderGiven, "side") = PyStr(upper(strip(last.run.inputs.side)))
    /\ ParamValue(OrderGiven, "type") = PyStr(OrderType)
    /\ ParamValue(OrderGiven, "quantity") = last.run.inputs.quantity
    /\ OrderType = "LIMIT" =>
         /\ ParamValue(OrderGiven, "price") = last.run.inputs.price
         /\ ParamValue(OrderGiven, "timeInForce") = PyStr("GTC")
    /\ OrderType = "STOP_MARKET" =>
         ParamValue(OrderGiven, "stopPrice") = last.run.inputs.stop_price
    /\ last.run.inputs.reduce_only => ParamValue(OrderGiven, "reduceOnly") = PyStr("true")
    /\ last.action = "1" => "reduceOnly" \notin Keys(OrderGiven)

\* a MARKET order given with a price and the reduce-only flag was sent
C14_Witness ==
  /\ OrderWorkflowRan
  /\ last.run.validated.ok
  /\ OrderType = "MARKET"
  /\ last.run.inputs.price # None
  /\ last.run.inputs.reduce_only
  /\ last.run.sent # <<>>

\* a STOP_MARKET order with a price was sent
C14_WitnessStop ==
  /\ OrderWorkflowRan
  /\ last.run.validated.ok
  /\ OrderType = "STOP_MARKET"
  /\ last.run.sent # <<>>

\* a LIMIT order from the menu was sent
C14_WitnessMenu ==
  /\ OrderWorkflowRan
  /\ last.action = "1"
  /\ OrderType = "LIMIT"
  /\ last.run.sent # <<>>

====
